---------------------------- MODULE Spec2Model ----------------------------
(***************************************************************************)
(* A model of the CHIP-8 interpreter engine of rusty-8 (src/src/chip8.rs)  *)
(* and of the calls its host makes on it (src/src/main.rs).                *)
(*                                                                         *)
(* The machine is the struct Chip8: one variable per field.  Every public  *)
(* method is one action.  Chip8::tick is translated arm by arm from its    *)
(* match in the operator tick, which maps a machine record to the machine  *)
(* record after the call together with the way the process ended, if it    *)
(* did: std::process::exit in fetch, the panic of the default arm, an      *)
(* index out of bounds, or an integer overflow in a build that checks      *)
(* overflow.                                                               *)
(***************************************************************************)
EXTENDS Integers, Sequences, FiniteSets, TLC

(***************************************************************************)
(* Program constants.                                                      *)
(***************************************************************************)
MEM_SIZE == 4096
PROG_OFFSET == 512
STACK_START == 0
STACK_END == 255
SPRITES_START == 255
SPRITES_END == 335
SCREEN_WIDTH == 64
SCREEN_HEIGHT == 32

CHIP8_FONT ==
    << 240, 144, 144, 144, 240,
        32,  96,  32,  32, 112,
       240,  16, 240, 128, 240,
       240,  16, 240,  16, 240,
       144, 144, 240,  16,  16,
       240, 128, 240,  16, 240,
       240, 128, 240, 144, 240,
       240,  16,  32,  64,  64,
       240, 144, 240, 144, 240,
       240, 144, 240,  16, 240,
       240, 144, 240, 144, 144,
       224, 144, 224, 144, 224,
       240, 128, 128, 128, 240,
       224, 144, 144, 144, 224,
       240, 128, 240, 128, 240,
       240, 128, 240, 128, 128 >>

(***************************************************************************)
(* Widths of the machine integers and the bitwise operators of u8.         *)
(***************************************************************************)
U8 == 256
U16 == 65536

RECURSIVE BitAnd(_, _, _)
BitAnd(a, b, bits) ==
    IF bits = 0 THEN 0
    ELSE ((a % 2) * (b % 2)) + 2 * BitAnd(a \div 2, b \div 2, bits - 1)

RECURSIVE BitOr(_, _, _)
BitOr(a, b, bits) ==
    IF bits = 0 THEN 0
    ELSE (IF (a % 2) + (b % 2) > 0 THEN 1 ELSE 0)
         + 2 * BitOr(a \div 2, b \div 2, bits - 1)

RECURSIVE BitXor(_, _, _)
BitXor(a, b, bits) ==
    IF bits = 0 THEN 0
    ELSE (((a % 2) + (b % 2)) % 2) + 2 * BitXor(a \div 2, b \div 2, bits - 1)

And8(a, b) == BitAnd(a, b, 8)
Or8(a, b) == BitOr(a, b, 8)
Xor8(a, b) == BitXor(a, b, 8)

RECURSIVE Pow2(_)
Pow2(n) == IF n = 0 THEN 1 ELSE 2 * Pow2(n - 1)

(* opcode >> n on an unsigned integer *)
Shr(a, n) == a \div Pow2(n)

(***************************************************************************)
(* decode: the four nibbles of a 16-bit instruction word.                  *)
(***************************************************************************)
decode(opcode) ==
    << Shr(BitAnd(opcode, 61440, 16), 12),
       Shr(BitAnd(opcode, 3840, 16), 8),
       Shr(BitAnd(opcode, 240, 16), 4),
       Shr(BitAnd(opcode, 15, 16), 0) >>


(***************************************************************************)
(* The machine: the fields of struct Chip8.  waiting is Option<u8>: << >>  *)
(* is None and << x >> is Some(x).                                         *)
(***************************************************************************)
VARIABLES memory, memory_end, v, i, pc, sp, dt, st,
          keyboard, waiting, screen, screen_updated

(***************************************************************************)
(* The process around the machine.  overflow_checks is the build: with it  *)
(* an integer overflow panics (cargo's dev profile), without it the value  *)
(* wraps (cargo's release profile).  halt is "none" while the process      *)
(* runs, and otherwise the way it ended.                                   *)
(***************************************************************************)
VARIABLES overflow_checks, halt

(***************************************************************************)
(* History of the calls made on the machine, kept for the properties:      *)
(*   op        the last call, with the word a tick fetched, the address it *)
(*             fetched it from and the value tick_timers returned;         *)
(*   loads     the number of successful load_rom calls;                    *)
(*   calls     for each 2nnn not yet returned from, the address after it   *)
(*             and the stack pointer before it;                            *)
(*   last_draw the draw of the last tick, if it drew: the instruction, the *)
(*             registers and sprite it read, the screen and VF before it,  *)
(*             whether the tick before drew the same (repeat), and the     *)
(*             screen before that one (prior);                             *)
(*   dt_set, dt_ticks  the last value written to dt and the number of      *)
(*             tick_timers calls since.                                    *)
(***************************************************************************)
VARIABLES op, loads, calls, last_draw, dt_set, dt_ticks

machine == << memory, memory_end, v, i, pc, sp, dt, st,
              keyboard, waiting, screen, screen_updated >>
process == << overflow_checks, halt >>
history == << op, loads, calls, last_draw, dt_set, dt_ticks >>
vars == << machine, process, history >>

Addr == 0 .. (MEM_SIZE - 1)
Pixels == 0 .. (SCREEN_WIDTH * SCREEN_HEIGHT - 1)
Regs == 0 .. 15

None == << >>
Some(x) == << x >>

(***************************************************************************)
(* The two byte arrays of the machine, memory: [u8; MEM_SIZE] and screen:  *)
(* Vec<u8> of SCREEN_WIDTH * SCREEN_HEIGHT bytes, are kept as the finite   *)
(* map of their non-zero bytes: an index outside the map holds 0.  Two     *)
(* arrays are equal exactly when their maps are.  An index past the end of *)
(* the array panics in the source, which the operations below test before  *)
(* they read or write.                                                     *)
(***************************************************************************)
Zeroes == [a \in {} |-> 0]

(* array[a] *)
Byte(array, a) == IF a \in DOMAIN array THEN array[a] ELSE 0

(* The array that holds F(a) at every a of S, and 0 elsewhere. *)
Pack(S, F(_)) == [a \in {q \in S : F(q) # 0} |-> F(a)]

(* array[a] = b *)
Poke(array, a, b) ==
    Pack(DOMAIN array \cup {a}, LAMBDA q : IF q = a THEN b ELSE array[q])

(* The machine as one record, so that a method is a function of it. *)
Self ==
    [ memory |-> memory, memory_end |-> memory_end, v |-> v, i |-> i,
      pc |-> pc, sp |-> sp, dt |-> dt, st |-> st, keyboard |-> keyboard,
      waiting |-> waiting, screen |-> screen,
      screen_updated |-> screen_updated ]

(* Writes a machine record back to the fields. *)
Becomes(m) ==
    /\ memory' = m.memory
    /\ memory_end' = m.memory_end
    /\ v' = m.v
    /\ i' = m.i
    /\ pc' = m.pc
    /\ sp' = m.sp
    /\ dt' = m.dt
    /\ st' = m.st
    /\ keyboard' = m.keyboard
    /\ waiting' = m.waiting
    /\ screen' = m.screen
    /\ screen_updated' = m.screen_updated

(***************************************************************************)
(* Chip8::new                                                              *)
(***************************************************************************)
new ==
    [ memory |-> Pack(Addr, LAMBDA a :
                     IF a >= SPRITES_START /\ a < SPRITES_END
                     THEN CHIP8_FONT[a - SPRITES_START + 1] ELSE 0),
      memory_end |-> PROG_OFFSET,
      v |-> [r \in Regs |-> 0],
      i |-> 0,
      pc |-> PROG_OFFSET,
      sp |-> STACK_START,
      dt |-> 0,
      st |-> 0,
      keyboard |-> [k \in Regs |-> FALSE],
      waiting |-> None,
      screen |-> Zeroes,
      screen_updated |-> FALSE ]

(***************************************************************************)
(* Chip8::load_rom on a file that opens: one read into memory[0x200..],    *)
(* which takes at most the room there is, and memory_end grows by the      *)
(* number of bytes read.                                                   *)
(***************************************************************************)
Min(a, b) == IF a < b THEN a ELSE b
Max(a, b) == IF a > b THEN a ELSE b

load_rom(m, rom) ==
    LET n == Min(Len(rom), MEM_SIZE - PROG_OFFSET)
    IN  [m EXCEPT
            !.memory = Pack(DOMAIN m.memory
                               \cup (PROG_OFFSET .. (PROG_OFFSET + n - 1)),
                            LAMBDA a :
                           IF a >= PROG_OFFSET /\ a < PROG_OFFSET + n
                           THEN rom[a - PROG_OFFSET + 1]
                           ELSE Byte(m.memory, a)),
            !.memory_end = m.memory_end + n]

(***************************************************************************)
(* Chip8::reboot                                                           *)
(***************************************************************************)
reboot(m) ==
    [m EXCEPT
        !.v = [r \in Regs |-> 0],
        !.i = 0,
        !.dt = 0,
        !.st = 0,
        !.keyboard = [k \in Regs |-> FALSE],
        !.waiting = None,
        !.screen = Zeroes,
        !.screen_updated = FALSE,
        !.memory = Pack(DOMAIN m.memory, LAMBDA a :
                       IF (a >= STACK_START /\ a < STACK_END)
                          \/ a >= m.memory_end
                       THEN 0 ELSE Byte(m.memory, a)),
        !.sp = STACK_START,
        !.pc = PROG_OFFSET]

(* memory[memory_end..MEM_SIZE] panics when memory_end is past the end. *)
reboot_panics(m) == m.memory_end > MEM_SIZE

(***************************************************************************)
(* Chip8::tick_timers: the machine after the call and the value returned.  *)
(***************************************************************************)
(* tick_timers decrementing without the test for zero. *)
tick_timers_unguarded(m) ==
    [ m |-> [m EXCEPT !.dt = (m.dt + U8 - 1) % U8,
                      !.st = (m.st + U8 - 1) % U8],
      ret |-> m.st > 0 ]

tick_timers(m) ==
    [ m |-> [m EXCEPT !.dt = IF m.dt > 0 THEN m.dt - 1 ELSE m.dt,
                      !.st = IF m.st > 0 THEN m.st - 1 ELSE m.st],
      ret |-> m.st > 0 ]

(***************************************************************************)
(* Chip8::answer_key                                                       *)
(***************************************************************************)
(* answer_key that stores the key and leaves the wait marker set. *)
answer_key_keeps_marker(m, key_pos) ==
    IF m.waiting # None
    THEN [m EXCEPT !.v[m.waiting[1]] = key_pos]
    ELSE m

answer_key(m, key_pos) ==
    IF m.waiting # None
    THEN [m EXCEPT !.v[m.waiting[1]] = key_pos, !.waiting = None]
    ELSE m

(***************************************************************************)
(* Chip8::finished_running                                                 *)
(***************************************************************************)
finished_running(m) == m.pc = m.memory_end

(***************************************************************************)
(* The outcome of a tick: the machine, and how the process ended if it     *)
(* did.  A halted process has no machine any more; the record keeps the    *)
(* machine as it was when the process ended.                               *)
(***************************************************************************)
Done(m) == [m |-> m, halt |-> "none"]
Halted(m, why) == [m |-> m, halt |-> why]

(***************************************************************************)
(* Chip8::fetch: exits the process outside [PROG_OFFSET, memory_end), and  *)
(* otherwise reads the big-endian word at addr; the slice addr..addr+2     *)
(* panics when it runs past the memory.                                    *)
(***************************************************************************)
fetch_exits(m, addr) == addr < PROG_OFFSET \/ addr >= m.memory_end

fetch_panics(m, addr) == addr + 2 > MEM_SIZE

fetch(m, addr) == Byte(m.memory, addr) * 256 + Byte(m.memory, addr + 1)

(***************************************************************************)
(* The arms of the match of Chip8::tick, in the order of the source.  m is *)
(* the machine after the fetch, with pc already advanced; checked is the   *)
(* build's overflow checking.                                              *)
(***************************************************************************)

(* 00E0 that also marks the screen as updated. *)
cls_marks_updated(m) ==
    Done([m EXCEPT !.screen = Zeroes, !.screen_updated = TRUE])

(* 00E0 *)
cls(m) == Done([m EXCEPT !.screen = Zeroes])

(* 00EE *)
ret(m, checked) ==
    IF m.sp < 2 /\ checked
    THEN Halted(m, "overflow")
    ELSE LET s == (m.sp + U8 - 2) % U8
         IN  Done([m EXCEPT !.sp = s,
                            !.pc = Byte(m.memory, s)
                                   + 256 * Byte(m.memory, s + 1)])

(* 1nnn *)
jp(m, address) == Done([m EXCEPT !.pc = address])

(* 2nnn *)
call(m, address, checked) ==
    LET pushed == [m EXCEPT !.memory =
                      Poke(Poke(m.memory, m.sp, m.pc % 256),
                           m.sp + 1, m.pc \div 256)]
    IN  IF m.sp + 2 >= U8 /\ checked
        THEN Halted(pushed, "overflow")
        ELSE Done([pushed EXCEPT !.sp = (m.sp + 2) % U8, !.pc = address])

(* self.pc += 2 of the skipping arms *)
skip(m, taken, checked) ==
    IF ~taken THEN Done(m)
    ELSE IF m.pc + 2 >= U16 /\ checked
         THEN Halted(m, "overflow")
         ELSE Done([m EXCEPT !.pc = (m.pc + 2) % U16])

(* 3xkk *)
se_byte(m, x, byte, checked) == skip(m, m.v[x] = byte, checked)

(* 4xkk *)
sne_byte(m, x, byte, checked) == skip(m, m.v[x] # byte, checked)

(* 5xy_ *)
se_reg(m, x, y, checked) == skip(m, m.v[x] = m.v[y], checked)

(* 6xkk *)
ld_byte(m, x, byte) == Done([m EXCEPT !.v[x] = byte])

(* 7xkk that sets VF to the carry of the addition. *)
add_byte_carry(m, x, byte) ==
    Done([m EXCEPT !.v[x] = (m.v[x] + byte) % U8,
                   !.v[15] = IF m.v[x] + byte >= U8 THEN 1 ELSE 0])

(* 7xkk *)
add_byte(m, x, byte) == Done([m EXCEPT !.v[x] = (m.v[x] + byte) % U8])

(* 8xy0 *)
mov(m, x, y) == Done([m EXCEPT !.v[x] = m.v[y]])

(* 8xy1 *)
or(m, x, y) == Done([m EXCEPT !.v[x] = Or8(m.v[x], m.v[y])])

(* 8xy2 *)
and(m, x, y) == Done([m EXCEPT !.v[x] = And8(m.v[x], m.v[y])])

(* 8xy3 *)
xor(m, x, y) == Done([m EXCEPT !.v[x] = Xor8(m.v[x], m.v[y])])

(* 8xy4 that writes the flag before the sum. *)
add_reg_flag_first(m, x, y) ==
    LET vx == m.v[x]
        vy == m.v[y]
        sum == (vx + vy) % U8
        is_overflowing == IF vx + vy >= U8 THEN 1 ELSE 0
    IN  Done([m EXCEPT !.v[15] = is_overflowing, !.v[x] = sum])

(* 8xy4 *)
add_reg(m, x, y) ==
    LET vx == m.v[x]
        vy == m.v[y]
        sum == (vx + vy) % U8
        is_overflowing == IF vx + vy >= U8 THEN 1 ELSE 0
    IN  Done([m EXCEPT !.v[x] = sum, !.v[15] = is_overflowing])

(* 8xy5 *)
sub_reg(m, x, y) ==
    LET vx == m.v[x]
        vy == m.v[y]
        sub == (vx + U8 - vy) % U8
        is_borrowing == vx < vy
    IN  Done([m EXCEPT !.v[x] = sub,
                       !.v[15] = IF is_borrowing THEN 0 ELSE 1])

(* 8xy6 that writes the flag before the shifted value. *)
shr_flag_first(m, x) ==
    LET vx == m.v[x]
        rshifted == Shr(vx, 1)
        lsb == And8(vx, 1)
    IN  Done([m EXCEPT !.v[15] = lsb, !.v[x] = rshifted])

(* 8xy6 *)
shr(m, x) ==
    LET vx == m.v[x]
        rshifted == Shr(vx, 1)
        lsb == And8(vx, 1)
    IN  Done([m EXCEPT !.v[x] = rshifted, !.v[15] = lsb])

(* 8xy7 *)
subn(m, x, y) ==
    LET vx == m.v[x]
        vy == m.v[y]
        sub == (vy + U8 - vx) % U8
        is_borrowing == vy < vx
    IN  Done([m EXCEPT !.v[x] = sub,
                       !.v[15] = IF is_borrowing THEN 0 ELSE 1])

(* 8xyE *)
shl(m, x) ==
    LET vx == m.v[x]
        lshifted == (vx * 2) % U8
        msb == Shr(And8(vx, 128), 7)
    IN  Done([m EXCEPT !.v[x] = lshifted, !.v[15] = msb])

(* 9xy_ *)
sne_reg(m, x, y, checked) == skip(m, m.v[x] # m.v[y], checked)

(* Annn *)
ld_i(m, address) == Done([m EXCEPT !.i = address])

(* Bnnn *)
jp_v0(m, address, checked) ==
    IF address + m.v[0] >= U16 /\ checked
    THEN Halted(m, "overflow")
    ELSE Done([m EXCEPT !.pc = (address + m.v[0]) % U16])

(* Cxkk *)
rnd(m, x, byte, rand_byte) == Done([m EXCEPT !.v[x] = And8(rand_byte, byte)])

(***************************************************************************)
(* Dxyn: the inner loop over the 8 bits of one sprite byte, from bit_pos   *)
(* on.  The loop breaks at the first pixel past the end of the row.        *)
(***************************************************************************)
(* draw_bits with the pixel ORed in, not XORed. *)
RECURSIVE draw_bits_or(_, _, _, _, _, _)
draw_bits_or(scr, has_collided, byte, sprite_pos, limit_pos, bit_pos) ==
    IF bit_pos >= 8
    THEN [screen |-> scr, has_collided |-> has_collided]
    ELSE LET pixel_pos == sprite_pos + bit_pos
         IN  IF pixel_pos >= limit_pos
             THEN [screen |-> scr, has_collided |-> has_collided]
             ELSE LET pixel == And8(Byte(scr, pixel_pos), 1)
                      bit == And8(Shr(byte, 7 - bit_pos), 1)
                  IN  draw_bits_or(Poke(scr, pixel_pos, Or8(pixel, bit) * 255),
                                   Or8(has_collided, And8(pixel, bit)),
                                   byte, sprite_pos, limit_pos, bit_pos + 1)

(* draw_bits without the break at the end of the row. *)
RECURSIVE draw_bits_unclipped(_, _, _, _, _, _)
draw_bits_unclipped(scr, has_collided, byte, sprite_pos, limit_pos, bit_pos) ==
    IF bit_pos >= 8
    THEN [screen |-> scr, has_collided |-> has_collided]
    ELSE LET pixel_pos == (sprite_pos + bit_pos) % (SCREEN_WIDTH * SCREEN_HEIGHT)
             pixel == And8(Byte(scr, pixel_pos), 1)
             bit == And8(Shr(byte, 7 - bit_pos), 1)
         IN  draw_bits_unclipped(Poke(scr, pixel_pos, Xor8(pixel, bit) * 255),
                                 Or8(has_collided, And8(pixel, bit)),
                                 byte, sprite_pos, limit_pos, bit_pos + 1)

RECURSIVE draw_bits(_, _, _, _, _, _)
draw_bits(scr, has_collided, byte, sprite_pos, limit_pos, bit_pos) ==
    IF bit_pos >= 8
    THEN [screen |-> scr, has_collided |-> has_collided]
    ELSE LET pixel_pos == sprite_pos + bit_pos
         IN  IF pixel_pos >= limit_pos
             THEN [screen |-> scr, has_collided |-> has_collided]
             ELSE LET pixel == And8(Byte(scr, pixel_pos), 1)
                      bit == And8(Shr(byte, 7 - bit_pos), 1)
                  IN  draw_bits(Poke(scr, pixel_pos, Xor8(pixel, bit) * 255),
                                Or8(has_collided, And8(pixel, bit)),
                                byte, sprite_pos, limit_pos, bit_pos + 1)

(* Dxyn: the outer loop over the bytes of the sprite, from byte number row on. *)
RECURSIVE draw_rows(_, _, _, _, _, _)
draw_rows(scr, has_collided, sprite, row, x_pos, y_pos) ==
    IF row > Len(sprite)
    THEN [screen |-> scr, has_collided |-> has_collided]
    ELSE LET sprite_pos == x_pos + y_pos * SCREEN_WIDTH
             limit_pos == (y_pos + 1) * SCREEN_WIDTH
             r == draw_bits(scr, has_collided, sprite[row],
                            sprite_pos, limit_pos, 0)
         IN  draw_rows(r.screen, r.has_collided, sprite, row + 1,
                       x_pos, (y_pos + 1) % 32)

(* The bytes memory[start..start+n] as a sequence. *)
slice(mem, start, n) == [k \in 1 .. n |-> Byte(mem, start + k - 1)]

(* drw with VF raised on a collision and left alone without one. *)
drw_flag_kept(m, x, y, nibble) ==
    LET sprite_start == m.i
        sprite_end == sprite_start + nibble
    IN  IF sprite_end > MEM_SIZE
        THEN Halted(m, "index_out_of_bounds")
        ELSE LET sprite == slice(m.memory, sprite_start, nibble)
                 x_pos == m.v[x] % 64
                 y_pos == m.v[y] % 32
                 r == draw_rows(m.screen, 0, sprite, 1, x_pos, y_pos)
             IN  Done([m EXCEPT !.screen = r.screen,
                                !.v[15] = Or8(m.v[15], r.has_collided),
                                !.screen_updated = TRUE])

(* Dxyn *)
drw(m, x, y, nibble) ==
    LET sprite_start == m.i
        sprite_end == sprite_start + nibble
    IN  IF sprite_end > MEM_SIZE
        THEN Halted(m, "index_out_of_bounds")
        ELSE LET sprite == slice(m.memory, sprite_start, nibble)
                 x_pos == m.v[x] % 64
                 y_pos == m.v[y] % 32
                 r == draw_rows(m.screen, 0, sprite, 1, x_pos, y_pos)
             IN  Done([m EXCEPT !.screen = r.screen,
                                !.v[15] = r.has_collided,
                                !.screen_updated = TRUE])

(* Ex9E *)
skp(m, x, checked) ==
    LET vx == m.v[x]
    IN  IF vx >= 16
        THEN Halted(m, "index_out_of_bounds")
        ELSE skip(m, m.keyboard[vx], checked)

(* ExA1 *)
sknp(m, x, checked) ==
    LET vx == m.v[x]
    IN  IF vx >= 16
        THEN Halted(m, "index_out_of_bounds")
        ELSE skip(m, m.keyboard[vx] = FALSE, checked)

(* Fx07 *)
ld_vx_dt(m, x) == Done([m EXCEPT !.v[x] = m.dt])

(* Fx0A that sets the wait marker and leaves the keyboard alone. *)
ld_key_keeps_keys(m, x) == Done([m EXCEPT !.waiting = Some(x)])

(* Fx0A *)
ld_key(m, x) ==
    Done([m EXCEPT !.keyboard = [k \in Regs |-> FALSE],
                   !.waiting = Some(x)])

(* Fx15 *)
ld_dt(m, x) == Done([m EXCEPT !.dt = m.v[x]])

(* Fx18 that sets both timers. *)
ld_st_sets_both(m, x) == Done([m EXCEPT !.st = m.v[x], !.dt = m.v[x]])

(* Fx18 *)
ld_st(m, x) == Done([m EXCEPT !.st = m.v[x]])

(* Fx1E *)
add_i(m, x, checked) ==
    IF m.i + m.v[x] >= U16 /\ checked
    THEN Halted(m, "overflow")
    ELSE Done([m EXCEPT !.i = (m.i + m.v[x]) % U16])

(* Fx29: the product v[x] * 5 is a u8 *)
ld_font(m, x, checked) ==
    IF m.v[x] * 5 >= U8 /\ checked
    THEN Halted(m, "overflow")
    ELSE Done([m EXCEPT !.i = SPRITES_START + ((m.v[x] * 5) % U8)])

(* Fx33 *)
bcd(m, x) ==
    LET vx == m.v[x]
        hundreds == (vx \div 100) % 10
        tenths == (vx \div 10) % 10
        ones == vx % 10
    IN  IF m.i + 2 >= MEM_SIZE
        THEN Halted(m, "index_out_of_bounds")
        ELSE Done([m EXCEPT !.memory =
                      Poke(Poke(Poke(m.memory, m.i, hundreds),
                                m.i + 1, tenths),
                           m.i + 2, ones)])

(* Fx55 *)
store(m, x, checked) ==
    LET start == m.i
        end == m.i + x
    IN  IF end >= MEM_SIZE
        THEN Halted(m, "index_out_of_bounds")
        ELSE IF m.i + x + 1 >= U16 /\ checked
        THEN Halted(m, "overflow")
        ELSE Done([m EXCEPT
                      !.memory = Pack(DOMAIN m.memory \cup (start .. end),
                                      LAMBDA a :
                                     IF a >= start /\ a <= end
                                     THEN m.v[a - start]
                                     ELSE Byte(m.memory, a)),
                      !.i = (m.i + x + 1) % U16])

(* Fx65 *)
load(m, x, checked) ==
    LET start == m.i
        end == m.i + x
    IN  IF end >= MEM_SIZE
        THEN Halted(m, "index_out_of_bounds")
        ELSE IF m.i + x + 1 >= U16 /\ checked
        THEN Halted(m, "overflow")
        ELSE Done([m EXCEPT
                      !.v = [r \in Regs |->
                                IF r <= x THEN Byte(m.memory, start + r)
                                          ELSE m.v[r]],
                      !.i = (m.i + x + 1) % U16])

(***************************************************************************)
(* Chip8::tick: one fetch, decode and execute.  rand_byte is the byte the  *)
(* generator yields if the instruction asks for one.                       *)
(***************************************************************************)
tick(m, rand_byte, checked) ==
    LET m0 == [m EXCEPT !.screen_updated = FALSE]
        addr == m.pc
    IN  IF fetch_exits(m0, addr) THEN Halted(m0, "invalid_memory_access")
        ELSE IF fetch_panics(m0, addr) THEN Halted(m0, "index_out_of_bounds")
        ELSE IF m0.pc + 2 >= U16 /\ checked THEN Halted(m0, "overflow")
        ELSE
        LET instruction == fetch(m0, addr)
            m1 == [m0 EXCEPT !.pc = (m0.pc + 2) % U16]
            nibbles == decode(instruction)
            address == BitAnd(instruction, 4095, 16)
            byte == BitAnd(instruction, 255, 16)
            nibble == nibbles[4]
            y == nibbles[3]
            x == nibbles[2]
        IN  CASE nibbles = << 0, 0, 14, 0 >> -> cls(m1)
              [] nibbles = << 0, 0, 14, 14 >> -> ret(m1, checked)
              [] nibbles[1] = 1 -> jp(m1, address)
              [] nibbles[1] = 2 -> call(m1, address, checked)
              [] nibbles[1] = 3 -> se_byte(m1, x, byte, checked)
              [] nibbles[1] = 4 -> sne_byte(m1, x, byte, checked)
              [] nibbles[1] = 5 -> se_reg(m1, x, y, checked)
              [] nibbles[1] = 6 -> ld_byte(m1, x, byte)
              [] nibbles[1] = 7 -> add_byte(m1, x, byte)
              [] nibbles[1] = 8 /\ nibbles[4] = 0 -> mov(m1, x, y)
              [] nibbles[1] = 8 /\ nibbles[4] = 1 -> or(m1, x, y)
              [] nibbles[1] = 8 /\ nibbles[4] = 2 -> and(m1, x, y)
              [] nibbles[1] = 8 /\ nibbles[4] = 3 -> xor(m1, x, y)
              [] nibbles[1] = 8 /\ nibbles[4] = 4 -> add_reg(m1, x, y)
              [] nibbles[1] = 8 /\ nibbles[4] = 5 -> sub_reg(m1, x, y)
              [] nibbles[1] = 8 /\ nibbles[4] = 6 -> shr(m1, x)
              [] nibbles[1] = 8 /\ nibbles[4] = 7 -> subn(m1, x, y)
              [] nibbles[1] = 8 /\ nibbles[4] = 14 -> shl(m1, x)
              [] nibbles[1] = 9 -> sne_reg(m1, x, y, checked)
              [] nibbles[1] = 10 -> ld_i(m1, address)
              [] nibbles[1] = 11 -> jp_v0(m1, address, checked)
              [] nibbles[1] = 12 -> rnd(m1, x, byte, rand_byte)
              [] nibbles[1] = 13 -> drw(m1, x, y, nibble)
              [] nibbles[1] = 14 /\ nibbles[3] = 9 /\ nibbles[4] = 14
                    -> skp(m1, x, checked)
              [] nibbles[1] = 14 /\ nibbles[3] = 10 /\ nibbles[4] = 1
                    -> sknp(m1, x, checked)
              [] nibbles[1] = 15 /\ nibbles[3] = 0 /\ nibbles[4] = 7
                    -> ld_vx_dt(m1, x)
              [] nibbles[1] = 15 /\ nibbles[3] = 0 /\ nibbles[4] = 10
                    -> ld_key(m1, x)
              [] nibbles[1] = 15 /\ nibbles[3] = 1 /\ nibbles[4] = 5
                    -> ld_dt(m1, x)
              [] nibbles[1] = 15 /\ nibbles[3] = 1 /\ nibbles[4] = 8
                    -> ld_st(m1, x)
              [] nibbles[1] = 15 /\ nibbles[3] = 1 /\ nibbles[4] = 14
                    -> add_i(m1, x, checked)
              [] nibbles[1] = 15 /\ nibbles[3] = 2 /\ nibbles[4] = 9
                    -> ld_font(m1, x, checked)
              [] nibbles[1] = 15 /\ nibbles[3] = 3 /\ nibbles[4] = 3
                    -> bcd(m1, x)
              [] nibbles[1] = 15 /\ nibbles[3] = 5 /\ nibbles[4] = 5
                    -> store(m1, x, checked)
              [] nibbles[1] = 15 /\ nibbles[3] = 6 /\ nibbles[4] = 5
                    -> load(m1, x, checked)
              [] OTHER -> Halted(m1, "unknown_instruction")

(***************************************************************************)
(* The programs the host loads.  Each is a ROM file: a sequence of bytes,  *)
(* loaded at 200 (hexadecimal, as all addresses in the comments below).    *)
(***************************************************************************)
(* Waits for a key, then tests it. *)
rom_wait ==
    <<  97,   9,   \* 200: LD V1, 9
       241,  10,   \* 202: LD V1, K
        98,   5,   \* 204: LD V2, 5
       225, 158,   \* 206: SKP V1
        99,   1,   \* 208: LD V3, 1
       225, 161,   \* 20A: SKNP V1
       100,   1,   \* 20C: LD V4, 1
        18,  14 >>   \* 20E: JP 20E

(* Jumps to an odd address; five bytes long. *)
rom_odd_jump ==
    <<  18,   3,   \* 200: JP 203
         0,   \* 202: (padding)
        96,   7 >>   \* 203: 203: LD V0, 7

(* Three bytes long: the last word is half outside the program. *)
rom_odd_len ==
    <<  96,   1,   \* 200: LD V0, 1
        97 >>   \* 202: LD V1, .. (second byte not loaded)

(* Stores into the font table and into the stack region. *)
rom_font ==
    << 160, 255,   \* 200: LD I, 0FF
       240,  51,   \* 202: LD B, V0
        97,   7,   \* 204: LD V1, 7
       160, 254,   \* 206: LD I, 0FE
       241,  85 >>   \* 208: LD [I], V1

(* Nested calls and returns. *)
rom_calls ==
    <<  34,   6,   \* 200: CALL 206
        34,   6,   \* 202: CALL 206
        18,   4,   \* 204: JP 204
        34,  10,   \* 206: CALL 20A
         0, 238,   \* 208: RET
         0, 238 >>   \* 20A: RET

(* Overwrites the pushed return address before returning. *)
rom_smash ==
    <<  34,   4,   \* 200: CALL 204
        18,   2,   \* 202: JP 202
       160,   0,   \* 204: LD I, 000
       240,  85,   \* 206: LD [I], V0
         0, 238 >>   \* 208: RET

(* Draws a sprite over itself, shifted, clipped and wrapped. *)
rom_draw ==
    << 162,  30,   \* 200: LD I, 21E
       192,   6,   \* 202: RND V0, 6
       112,  58,   \* 204: ADD V0, 58
        97,  30,   \* 206: LD V1, 30
       208,  19,   \* 208: DRW V0, V1, 3
       208,  19,   \* 20A: DRW V0, V1, 3
       208,  19,   \* 20C: DRW V0, V1, 3
       112,   2,   \* 20E: ADD V0, 2
       208,  19,   \* 210: DRW V0, V1, 3
       208,  19,   \* 212: DRW V0, V1, 3
       208,  16,   \* 214: DRW V0, V1, 0
       223,  19,   \* 216: DRW VF, V1, 3
       223,  19,   \* 218: DRW VF, V1, 3
         0, 224,   \* 21A: CLS
        18,  28,   \* 21C: JP 21C
       255, 129, 255 >>   \* 21E: sprite

(* Sets both timers and reads the delay timer in a loop. *)
rom_timers ==
    <<  96,   3,   \* 200: LD V0, 3
       240,  21,   \* 202: LD DT, V0
        97,   2,   \* 204: LD V1, 2
       241,  24,   \* 206: LD ST, V1
       242,   7,   \* 208: LD V2, DT
        18,   8 >>   \* 20A: JP 208

(* Tests a key whose number is not a key of the keyboard. *)
rom_bad_key ==
    <<  96,  16,   \* 200: LD V0, 16
       224, 158 >>   \* 202: SKP V0

(* Returns with nothing on the stack. *)
rom_bare_ret ==
    <<   0, 238 >>   \* 200: RET

(* One-instruction programs: words the opcode table does not hold, and the *)
(* blank word.                                                             *)
ProbeWords ==
    { 0,        \* 0000
      225,      \* 00E1
      20497,    \* 5011
      32776,    \* 8008
      36881,    \* 9011
      57344,    \* E000
      61440 }   \* F000

rom_probe(w) == << w \div 256, w % 256 >>

Roms ==
    { rom_wait, rom_odd_jump, rom_odd_len, rom_font, rom_calls,
      rom_smash, rom_draw, rom_timers, rom_bad_key, rom_bare_ret }
    \cup { rom_probe(w) : w \in ProbeWords }

(***************************************************************************)
(* Bounds of the exploration.                                              *)
(***************************************************************************)
(* The host presses keys 0 .. MaxKey only. *)
MaxKey == 0
(* tick_timers is explored until MaxIdleTicks calls after the delay timer *)
(* written last has run out.                                              *)
MaxIdleTicks == 1
(* load_rom is called at most MaxLoads times on one machine (SpecLoad). *)
MaxLoads == 2

HostKeys == 0 .. MaxKey

(***************************************************************************)
(* Classes of instruction words, for the history and the properties.       *)
(***************************************************************************)
(* No 16-bit word: the value of a fetch that did not happen. *)
NoWord == U16

IsCls(w) == w # NoWord /\ decode(w) = << 0, 0, 14, 0 >>
IsRet(w) == w # NoWord /\ decode(w) = << 0, 0, 14, 14 >>
IsCall(w) == w # NoWord /\ decode(w)[1] = 2
IsRnd(w) == w # NoWord /\ decode(w)[1] = 12
IsDraw(w) == w # NoWord /\ decode(w)[1] = 13
IsLdKey(w) ==
    w # NoWord /\ decode(w)[1] = 15 /\ decode(w)[3] = 0 /\ decode(w)[4] = 10
IsLdDt(w) ==
    w # NoWord /\ decode(w)[1] = 15 /\ decode(w)[3] = 1 /\ decode(w)[4] = 5
IsLdSt(w) ==
    w # NoWord /\ decode(w)[1] = 15 /\ decode(w)[3] = 1 /\ decode(w)[4] = 8

(* The word the next tick fetches, if its fetch succeeds. *)
NextWord ==
    IF fetch_exits(Self, pc) \/ fetch_panics(Self, pc)
    THEN NoWord ELSE fetch(Self, pc)

Call(name) == [name |-> name, instr |-> NoWord, addr |-> 0, ret |-> FALSE]

(***************************************************************************)
(* Init: the process has constructed the machine (main.rs, Chip8::new).    *)
(***************************************************************************)
Init ==
    /\ memory = new.memory
    /\ memory_end = new.memory_end
    /\ v = new.v
    /\ i = new.i
    /\ pc = new.pc
    /\ sp = new.sp
    /\ dt = new.dt
    /\ st = new.st
    /\ keyboard = new.keyboard
    /\ waiting = new.waiting
    /\ screen = new.screen
    /\ screen_updated = new.screen_updated
    /\ overflow_checks \in BOOLEAN
    /\ halt = "none"
    /\ op = Call("new")
    /\ loads = 0
    /\ calls = << >>
    /\ last_draw = None
    /\ dt_set = 0
    /\ dt_ticks = 0

(***************************************************************************)
(* main.rs:51-55: the host loads the ROM named on the command line right   *)
(* after constructing the machine, once.                                   *)
(***************************************************************************)
Loaded(rom) ==
    /\ Becomes(load_rom(Self, rom))
    /\ op' = [Call("load_rom") EXCEPT !.ret = TRUE]
    /\ loads' = loads + 1
    /\ last_draw' = None
    /\ UNCHANGED << process, calls, dt_set, dt_ticks >>

Boot ==
    /\ halt = "none"
    /\ op.name = "new"
    /\ \E rom \in Roms : Loaded(rom)

(***************************************************************************)
(* Chip8::tick                                                             *)
(***************************************************************************)
Tick ==
    /\ halt = "none"
    /\ \E rand_byte \in (IF IsRnd(NextWord) THEN 0 .. (U8 - 1) ELSE {0}) :
       \E r \in {tick(Self, rand_byte, overflow_checks)} :
          LET w == NextWord
              ok == r.halt = "none"
          IN  /\ Becomes(r.m)
              /\ halt' = r.halt
              /\ op' = [name |-> "tick", instr |-> w, addr |-> pc,
                        ret |-> FALSE]
              /\ calls' =
                    IF ok /\ IsCall(w)
                    THEN Append(calls, [ret |-> (pc + 2) % U16, sp |-> sp])
                    ELSE IF ok /\ IsRet(w) /\ calls # << >>
                         THEN SubSeq(calls, 1, Len(calls) - 1)
                         ELSE calls
              /\ last_draw' =
                    IF ok /\ IsDraw(w)
                    THEN LET reads == [instr |-> w, i |-> i,
                                       vx |-> v[decode(w)[2]],
                                       vy |-> v[decode(w)[3]],
                                       sprite |-> slice(memory, i, decode(w)[4])]
                             repeat == /\ last_draw # None
                                       /\ last_draw[1].reads = reads
                         IN  Some([reads |-> reads, screen |-> screen,
                                   vf |-> v[15], repeat |-> repeat,
                                   prior |-> IF repeat
                                             THEN last_draw[1].screen
                                             ELSE Zeroes])
                    ELSE None
              /\ dt_set' = IF ok /\ IsLdDt(w) THEN r.m.dt ELSE dt_set
              /\ dt_ticks' = IF ok /\ IsLdDt(w) THEN 0 ELSE dt_ticks
              /\ UNCHANGED << overflow_checks, loads >>

(***************************************************************************)
(* Chip8::tick_timers                                                      *)
(***************************************************************************)
TickTimers ==
    /\ halt = "none"
    /\ dt_ticks < dt_set + MaxIdleTicks
    /\ LET r == tick_timers(Self)
       IN  /\ Becomes(r.m)
           /\ op' = [Call("tick_timers") EXCEPT !.ret = r.ret]
    /\ dt_ticks' = dt_ticks + 1
    /\ UNCHANGED << process, loads, calls, last_draw, dt_set >>

(***************************************************************************)
(* Chip8::answer_key                                                       *)
(***************************************************************************)
Answered(key_pos) ==
    /\ Becomes(answer_key(Self, key_pos))
    /\ op' = Call("answer_key")
    /\ UNCHANGED << process, loads, calls, last_draw, dt_set, dt_ticks >>

AnswerKey ==
    /\ halt = "none"
    /\ \E key_pos \in HostKeys : Answered(key_pos)

(***************************************************************************)
(* Chip8::reboot                                                           *)
(***************************************************************************)
Reboot ==
    /\ halt = "none"
    /\ IF reboot_panics(Self)
       THEN /\ halt' = "index_out_of_bounds"
            /\ UNCHANGED << machine, overflow_checks, calls, last_draw,
                            dt_set, dt_ticks >>
       ELSE /\ Becomes(reboot(Self))
            /\ calls' = << >>
            /\ last_draw' = None
            /\ dt_set' = 0
            /\ dt_ticks' = 0
            /\ UNCHANGED process
    /\ op' = Call("reboot")
    /\ UNCHANGED loads

(***************************************************************************)
(* main.rs read_chip8_keys: the host writes the state of every key.        *)
(***************************************************************************)
read_chip8_keys(m, down) == [m EXCEPT !.keyboard = [k \in Regs |-> k \in down]]

ReadKeys ==
    /\ halt = "none"
    /\ \E down \in SUBSET HostKeys :
          /\ Becomes(read_chip8_keys(Self, down))
    /\ op' = Call("read_chip8_keys")
    /\ UNCHANGED << process, loads, calls, last_draw, dt_set, dt_ticks >>

Next ==
    \/ Boot
    \/ Tick
    \/ TickTimers
    \/ AnswerKey
    \/ Reboot
    \/ ReadKeys

Spec == Init /\ [][Next]_vars

(***************************************************************************)
(* SpecLoad: load_rom as a method, called any number of times (up to       *)
(* MaxLoads) on a machine that may have run, with files that open and      *)
(* files that do not.                                                      *)
(***************************************************************************)
(* A file of one byte more than the memory has room for. *)
rom_full == [k \in 1 .. (MEM_SIZE - PROG_OFFSET + 1) |-> IF k = 2 THEN 224 ELSE 0]

LoadRoms == { rom_odd_len, rom_odd_jump, rom_probe(20497), rom_full }

LoadRom ==
    /\ halt = "none"
    /\ loads < MaxLoads
    /\ \E rom \in LoadRoms : Loaded(rom)

(* File::open fails: load_rom returns the error and has changed nothing. *)
LoadRomFails ==
    /\ halt = "none"
    /\ op' = Call("load_rom")
    /\ UNCHANGED << machine, process, loads, calls, last_draw, dt_set,
                    dt_ticks >>

NextLoad ==
    \/ LoadRom
    \/ LoadRomFails
    \/ Tick
    \/ Reboot

SpecLoad == Init /\ [][NextLoad]_vars

(***************************************************************************)
(* SpecAlu: the arithmetic instructions on chosen operands.  The host      *)
(* loads a program that sets Vx, Vy and VF and then runs one instruction   *)
(* of 8xy4, 8xy5, 8xy6, 8xy7, 8xyE or 7xkk; x and y range over AluRegs,    *)
(* the values over AluBytes and AluFlags.                                  *)
(***************************************************************************)
AluRegs == {0, 1, 15}
AluBytes == {0, 1, 3, 128, 255}
AluFlags == {0, 1, 200}
AluOps == {4, 5, 6, 7, 14}

(* The word 8xyn, and the word 7xkk. *)
alu_word(x, y, n) == 32768 + 256 * x + 16 * y + n
add_word(x, byte) == 28672 + 256 * x + byte

rom_alu(x, a, y, b, c, w) ==
    << 96 + x, a,            \* 200: LD Vx, a
       96 + y, b,            \* 202: LD Vy, b
       111, c,               \* 204: LD VF, c
       w \div 256, w % 256 >>   \* 206: the instruction

AluRoms ==
    { rom_alu(q[1], q[2], q[3], q[4], q[5], alu_word(q[1], q[3], q[6])) :
         q \in AluRegs \X AluBytes \X AluRegs \X AluBytes \X AluFlags
                  \X AluOps }
    \cup
    { rom_alu(q[1], q[2], q[3], q[4], q[5], add_word(q[1], q[4])) :
         q \in AluRegs \X AluBytes \X AluRegs \X AluBytes \X AluFlags }

BootAlu ==
    /\ halt = "none"
    /\ op.name = "new"
    /\ \E rom \in AluRoms : Loaded(rom)

NextAlu ==
    \/ BootAlu
    \/ Tick

SpecAlu == Init /\ [][NextAlu]_vars

(***************************************************************************)
(* SpecHost: the machine driven by the event loop of main.rs.  The closure *)
(* given to glutin_handle_basic_input runs once per event.  It is modelled *)
(* in two steps, which no other step can come between:                     *)
(*   HostCallback  main.rs:84-133, from reading the keys to the end of the *)
(*                 wait handling; op.ret tells whether the closure went on *)
(*                 to the dispatch of the wakeup or returned before it;    *)
(*   HostTick, HostTickTimers  main.rs:136-156, the wakeup that woke the   *)
(*                 closure, if there was one and it is of that kind.       *)
(* A closure without a wakeup is a HostCallback followed by the next       *)
(* HostCallback.  The closure returning false ends the event loop and the  *)
(* process: halt = "closed".                                               *)
(***************************************************************************)
(* The host presses the CHIP-8 keys 0 .. MaxHostKey. *)
MaxHostKey == 1

HostPad == 0 .. MaxHostKey

(* VirtualKeyCode::R, which is CHIP-8 key D and, with LControl, the reboot. *)
KeyR == 13

(* A program whose last instruction skips. *)
rom_end_skip ==
    <<  48,   0 >>   \* 200: SE V0, 0

HostRoms == { rom_wait, rom_timers, rom_end_skip, rom_odd_len }

(* main.rs:86-88 *)
should_close(m, escape) == escape \/ finished_running(m)

(* keyboard.iter().position(|&key_down| key_down == true) *)
position(keys) ==
    IF \E k \in Regs : keys[k]
    THEN Some(CHOOSE k \in Regs : keys[k] /\ \A j \in 0 .. (k - 1) : ~keys[j])
    ELSE None

(* The wait handling that goes on to the dispatch with no key down. *)
wait_handling_runs_on(m) ==
    IF m.waiting = None THEN [m |-> m, go |-> TRUE]
    ELSE LET key_pos == position(m.keyboard)
         IN  IF key_pos # None
             THEN [m |-> answer_key(m, key_pos[1]), go |-> TRUE]
             ELSE [m |-> m, go |-> TRUE]

(* main.rs:105-123: go is FALSE when the closure returns at line 120. *)
wait_handling(m) ==
    IF m.waiting = None THEN [m |-> m, go |-> TRUE]
    ELSE LET key_pos == position(m.keyboard)
         IN  IF key_pos # None
             THEN [m |-> answer_key(m, key_pos[1]), go |-> TRUE]
             ELSE [m |-> m, go |-> FALSE]

BootHost ==
    /\ halt = "none"
    /\ op.name = "new"
    /\ \E rom \in HostRoms : Loaded(rom)

HostCallback ==
    /\ halt = "none"
    /\ op.name # "new"
    /\ \E down \in SUBSET HostPad, escape \in BOOLEAN, should_reboot \in BOOLEAN :
          LET m1 == read_chip8_keys(Self,
                       down \cup (IF should_reboot THEN {KeyR} ELSE {}))
          IN  IF should_close(m1, escape)
              THEN /\ Becomes(m1)
                   /\ halt' = "closed"
                   /\ op' = Call("callback")
                   /\ UNCHANGED << overflow_checks, calls, last_draw,
                                   dt_set, dt_ticks >>
              ELSE IF should_reboot /\ reboot_panics(m1)
              THEN /\ Becomes(m1)
                   /\ halt' = "index_out_of_bounds"
                   /\ op' = Call("callback_reboot")
                   /\ UNCHANGED << overflow_checks, calls, last_draw,
                                   dt_set, dt_ticks >>
              ELSE IF should_reboot
              THEN LET r == wait_handling(reboot(m1))
                   IN  /\ Becomes(r.m)
                       /\ op' = [Call("callback_reboot") EXCEPT !.ret = r.go]
                       /\ calls' = << >>
                       /\ last_draw' = None
                       /\ dt_set' = 0
                       /\ dt_ticks' = 0
                       /\ UNCHANGED process
              ELSE LET r == wait_handling(m1)
                   IN  /\ Becomes(r.m)
                       /\ op' = [Call("callback") EXCEPT !.ret = r.go]
                       /\ UNCHANGED << process, calls, last_draw,
                                       dt_set, dt_ticks >>
    /\ UNCHANGED loads

(* The closure is at the dispatch of its wakeup. *)
AtDispatch == op.name \in {"callback", "callback_reboot"} /\ op.ret

HostTick == AtDispatch /\ Tick

HostTickTimers == AtDispatch /\ TickTimers

NextHost ==
    \/ BootHost
    \/ HostCallback
    \/ HostTick
    \/ HostTickTimers

SpecHost == Init /\ [][NextHost]_vars

(***************************************************************************)
(*                              PROPERTIES                                 *)
(***************************************************************************)

(***************************************************************************)
(* What the specification's opcode table holds: a word is in the table     *)
(* when every nibble the table fixes has the value the table gives.        *)
(***************************************************************************)
InTable(w) ==
    LET n == decode(w)
        low == w % 256
    IN  \/ w = 224
        \/ w = 238
        \/ n[1] \in {1, 2, 3, 4, 6, 7, 10, 11, 12, 13}
        \/ n[1] \in {5, 9} /\ n[4] = 0
        \/ n[1] = 8 /\ n[4] \in {0, 1, 2, 3, 4, 5, 6, 7, 14}
        \/ n[1] = 14 /\ low \in {158, 161}
        \/ n[1] = 15 /\ low \in {7, 10, 21, 24, 30, 41, 51, 85, 101}

(***************************************************************************)
(* The draw the specification describes, for a draw d of the history: its  *)
(* origin, the bit of sprite row r at column offset b, the pixel that bit  *)
(* falls on, and the pixels the set bits inside the screen fall on.        *)
(***************************************************************************)
DrawX(d) == d.reads.vx % 64
DrawY(d) == d.reads.vy % 32
SpriteBit(d, r, b) == (d.reads.sprite[r + 1] \div Pow2(7 - b)) % 2
Cell(d, r, b) == DrawX(d) + b + SCREEN_WIDTH * ((DrawY(d) + r) % 32)
LitBy(d) ==
    { Cell(d, rb[1], rb[2]) :
        rb \in { c \in (0 .. (Len(d.reads.sprite) - 1)) \X (0 .. 7) :
                   DrawX(d) + c[2] <= 63 /\ SpriteBit(d, c[1], c[2]) = 1 } }
On(scr, p) == Byte(scr, p) # 0

(* The last call was a tick that drew. *)
Drew == halt = "none" /\ op.name = "tick" /\ last_draw # None

(***************************************************************************)
(* C1: after Fx0A has set the wait marker, a tick leaves PC and V0..VF     *)
(* unchanged until answer_key is called; answer_key(k) then sets the       *)
(* awaited register to k and clears the marker.                            *)
(***************************************************************************)
C1_TickSuspendedWhileWaiting ==
    [][ /\ (waiting # None /\ op'.name = "tick") => (pc' = pc /\ v' = v)
        /\ \A k \in HostKeys :
              (waiting # None /\ Answered(k))
                 => (v'[waiting[1]] = k /\ waiting' = None) ]_vars

(***************************************************************************)
(* C2: a tick either halts with the out-of-bounds exit of fetch, or has    *)
(* fetched its word at an even address with both bytes of the word inside  *)
(* [PROG_OFFSET, memory_end).                                              *)
(***************************************************************************)
C2_FetchEvenInsideProgram ==
    op.name = "tick"
       => \/ halt = "invalid_memory_access"
          \/ /\ op.addr % 2 = 0
             /\ op.addr >= PROG_OFFSET
             /\ op.addr + 2 <= memory_end

(***************************************************************************)
(* C3: a tick that fetches a word outside the opcode table halts with the  *)
(* unknown-instruction panic.                                              *)
(***************************************************************************)
C3_UnknownWordHalts ==
    (op.name = "tick" /\ op.instr # NoWord /\ ~InTable(op.instr))
       => halt = "unknown_instruction"

(***************************************************************************)
(* C4: after every successful load_rom, memory_end is PROG_OFFSET plus the *)
(* number of bytes read and the memory from PROG_OFFSET on holds them.     *)
(***************************************************************************)
C4_LoadSetsProgramEnd ==
    [][ \A rom \in LoadRoms :
           Loaded(rom) =>
              LET len == Min(Len(rom), MEM_SIZE - PROG_OFFSET)
              IN  /\ memory_end' = PROG_OFFSET + len
                  /\ \A k \in 1 .. len :
                        Byte(memory', PROG_OFFSET + k - 1) = rom[k] ]_vars

(***************************************************************************)
(* C5: in every state of a running machine the font table holds the glyphs *)
(* stored at construction.                                                 *)
(***************************************************************************)
C5_FontNeverChanges ==
    halt = "none"
       => \A a \in SPRITES_START .. (SPRITES_END - 1) :
             Byte(memory, a) = CHIP8_FONT[a - SPRITES_START + 1]

(***************************************************************************)
(* C6: every 00EE sets PC to the address after the most recent 2nnn not    *)
(* yet returned from, and SP to its value before that 2nnn.                *)
(***************************************************************************)
C6_ReturnsAreLifo ==
    [][ (op'.name = "tick" /\ halt' = "none" /\ IsRet(op'.instr)
         /\ calls # << >>)
           => /\ pc' = calls[Len(calls)].ret
              /\ sp' = calls[Len(calls)].sp ]_vars

(***************************************************************************)
(* C7, as claimed: a Dxyn that repeats the Dxyn of the tick before, with   *)
(* the same I, Vx, Vy and sprite bytes and a sprite with a set bit inside  *)
(* the screen, leaves the screen as it was before the first of the two and *)
(* leaves VF = 1.                                                          *)
(***************************************************************************)
C7_RedrawRestoresAndCollides ==
    (Drew /\ last_draw[1].repeat /\ LitBy(last_draw[1]) # {})
       => /\ screen = last_draw[1].prior
          /\ v[15] = 1

(***************************************************************************)
(* C7, amended: such a repeated Dxyn leaves the screen as it was before    *)
(* the first of the two, and leaves VF = 1 exactly when some set bit of    *)
(* the sprite inside the screen fell on a pixel that was off before the    *)
(* first of the two; otherwise it leaves VF = 0.                           *)
(***************************************************************************)
C7_RedrawRestores ==
    (Drew /\ last_draw[1].repeat /\ LitBy(last_draw[1]) # {})
       => /\ screen = last_draw[1].prior
          /\ v[15] = IF \E p \in LitBy(last_draw[1]) :
                           ~On(last_draw[1].prior, p)
                     THEN 1 ELSE 0

(* A repeated draw over a screen that was not blank, ending with VF = 1. *)
C7_Witness ==
    /\ Drew
    /\ last_draw[1].repeat
    /\ LitBy(last_draw[1]) # {}
    /\ last_draw[1].prior # Zeroes
    /\ v[15] = 1

(***************************************************************************)
(* C8: after a Dxyn every pixel a set sprite bit inside the screen falls   *)
(* on (column X + b <= 63, row (Y + r) mod 32) is flipped, and every other *)
(* pixel is as before: bits past column 63 are dropped.                    *)
(***************************************************************************)
C8_DrawChangesOnlySpriteCells ==
    Drew =>
       LET lit == LitBy(last_draw[1])
       IN  \A p \in Pixels :
              Byte(screen, p) =
                 IF p \in lit
                 THEN (IF On(last_draw[1].screen, p) THEN 0 ELSE 255)
                 ELSE Byte(last_draw[1].screen, p)

(* A draw at column 60 and row 30 of three rows of eight set bits: clipped *)
(* on the right and wrapped at the bottom.                                 *)
C8_Witness ==
    /\ Drew
    /\ DrawX(last_draw[1]) = 60
    /\ DrawY(last_draw[1]) = 30
    /\ last_draw[1].reads.sprite = << 255, 129, 255 >>
    /\ On(screen, 63 + SCREEN_WIDTH * 30)
    /\ On(screen, 63)

(***************************************************************************)
(* C9: after a Dxyn, VF = 1 if some pixel was on before the draw and is    *)
(* off after it, and VF = 0 otherwise.                                     *)
(***************************************************************************)
C9_CollisionFlag ==
    Drew =>
       v[15] = IF \E p \in Pixels :
                     On(last_draw[1].screen, p) /\ ~On(screen, p)
               THEN 1 ELSE 0

(* A draw that found VF = 1 and left VF = 0. *)
C9_Witness ==
    /\ Drew
    /\ last_draw[1].vf = 1
    /\ v[15] = 0
    /\ LitBy(last_draw[1]) # {}

(***************************************************************************)
(* C10: tick_timers decrements each timer that is above 0 by one, leaves a *)
(* timer at 0 there, and returns whether st was above 0; so dt is the last *)
(* value written to it less the number of tick_timers calls since, and 0   *)
(* from then on.                                                           *)
(***************************************************************************)
C10_TimersCountDown ==
    /\ [][ op'.name = "tick_timers"
              => /\ dt' = IF dt > 0 THEN dt - 1 ELSE 0
                 /\ st' = IF st > 0 THEN st - 1 ELSE 0
                 /\ op'.ret = (st > 0) ]_vars
    /\ [](halt = "none" => dt = Max(dt_set - dt_ticks, 0))

(* The delay timer, set to 3, after four calls of tick_timers. *)
C10_Witness ==
    /\ op.name = "tick_timers"
    /\ dt_set = 3
    /\ dt_ticks = 4
    /\ dt = 0

(***************************************************************************)
(* C11: a reboot leaves memory_end and the program bytes in                *)
(* [PROG_OFFSET, memory_end) as they were, and leaves every other field,   *)
(* and every byte of memory outside the program, as Chip8::new makes it.   *)
(***************************************************************************)
C11_RebootRestoresConstruction ==
    [][ (op'.name = "reboot" /\ halt' = "none")
           => /\ memory_end' = memory_end
              /\ \A a \in DOMAIN memory \cup DOMAIN memory'
                             \cup DOMAIN new.memory :
                    Byte(memory', a) =
                       IF a >= PROG_OFFSET /\ a < memory_end
                       THEN Byte(memory, a)
                       ELSE Byte(new.memory, a)
              /\ v' = new.v
              /\ i' = new.i
              /\ pc' = new.pc
              /\ sp' = new.sp
              /\ dt' = new.dt
              /\ st' = new.st
              /\ keyboard' = new.keyboard
              /\ waiting' = new.waiting
              /\ screen' = new.screen
              /\ screen_updated' = new.screen_updated ]_vars

(***************************************************************************)
(* C12: a tick ends the process only by the out-of-bounds exit of fetch or *)
(* by the unknown-instruction panic; a tick that fetches a word of the     *)
(* opcode table completes.                                                 *)
(***************************************************************************)
C12_OnlyFetchAndDecodeHalt ==
    op.name = "tick"
       => /\ halt \in {"none", "invalid_memory_access", "unknown_instruction"}
          /\ (op.instr # NoWord /\ InTable(op.instr)) => halt = "none"

(***************************************************************************)
(* C13: answer_key(k) with no wait active changes no field of the machine; *)
(* with a wait on register x active it sets Vx to k, clears the wait       *)
(* marker and changes no other field.                                      *)
(***************************************************************************)
C13_AnswerKeyFrame ==
    [][ \A k \in HostKeys :
           Answered(k) =>
              IF waiting = None
              THEN UNCHANGED machine
              ELSE /\ v' = [r \in Regs |-> IF r = waiting[1] THEN k ELSE v[r]]
                   /\ waiting' = None
                   /\ UNCHANGED << memory, memory_end, i, pc, sp, dt, st,
                                   keyboard, screen, screen_updated >> ]_vars

(* answer_key(0) has answered the wait of rom_wait on V1, which held 9. *)
C13_Witness ==
    /\ op.name = "answer_key"
    /\ pc = 516
    /\ v[1] = 0
    /\ waiting = None

(***************************************************************************)
(* C14, as claimed: the keyboard changes in a call of the engine only when *)
(* a tick executes Fx0A, which clears all 16 keys; every other tick,       *)
(* tick_timers, answer_key and reboot leave it as the host set it.         *)
(***************************************************************************)
C14_OnlyWaitClearsKeys ==
    [][ /\ (op'.name = "tick" /\ halt' = "none" /\ IsLdKey(op'.instr))
              => keyboard' = [k \in Regs |-> FALSE]
        /\ (op'.name \in {"tick", "tick_timers", "answer_key", "reboot"}
            /\ ~IsLdKey(op'.instr))
              => keyboard' = keyboard ]_vars

(***************************************************************************)
(* C14, amended: the keyboard changes in a call of the engine only when a  *)
(* tick executes Fx0A or when reboot is called, and both clear all 16      *)
(* keys; every other tick, tick_timers and answer_key leave it as the host *)
(* set it.                                                                 *)
(***************************************************************************)
C14_OnlyWaitAndRebootClearKeys ==
    [][ /\ (\/ op'.name = "tick" /\ halt' = "none" /\ IsLdKey(op'.instr)
            \/ op'.name = "reboot" /\ halt' = "none")
              => keyboard' = [k \in Regs |-> FALSE]
        /\ (op'.name \in {"tick", "tick_timers", "answer_key"}
            /\ ~IsLdKey(op'.instr))
              => keyboard' = keyboard ]_vars

(* Fx0A has just run: the wait marker is set and no key is down. *)
C14_Witness ==
    /\ op.name = "tick"
    /\ halt = "none"
    /\ IsLdKey(op.instr)
    /\ waiting = Some(1)
    /\ keyboard = [k \in Regs |-> FALSE]

IsAlu(w, n) == w # NoWord /\ decode(w)[1] = 8 /\ decode(w)[4] = n
IsAddByte(w) == w # NoWord /\ decode(w)[1] = 7

(* The registers after an instruction that leaves result in Vx and then   *)
(* flag in VF.                                                             *)
ResultThenFlag(x, result, flag) ==
    [r \in Regs |-> IF r = 15 THEN flag ELSE IF r = x THEN result ELSE v[r]]

C17_ShiftsUseVxOnly ==
    [][ (op'.name = "tick" /\ halt' = "none")
           => LET w == op'.instr
                  x == decode(w)[2]
                  vx == v[x]
              IN  /\ IsAlu(w, 6)
                        => v' = ResultThenFlag(x, vx \div 2, vx % 2)
                  /\ IsAlu(w, 14)
                        => v' = ResultThenFlag(x, (vx * 2) % 256,
                                               vx \div 128) ]_vars

(* 8016 with V0 = 3 and V1 = 255 has run: V0 = 1 and VF = 1, V1 as it was. *)
C17_Witness ==
    /\ op.name = "tick"
    /\ halt = "none"
    /\ op.instr = alu_word(0, 1, 6)
    /\ v[0] = 1
    /\ v[1] = 255
    /\ v[15] = 1

(***************************************************************************)
(* C18: 7xkk leaves (Vx + kk) mod 256 in Vx and changes no other register: *)
(* VF keeps its value when the addition wraps.                             *)
(***************************************************************************)
C18_AddByteNoCarry ==
    [][ (op'.name = "tick" /\ halt' = "none" /\ IsAddByte(op'.instr))
           => LET w == op'.instr
                  x == decode(w)[2]
              IN  v' = [r \in Regs |->
                          IF r = x THEN (v[x] + (w % 256)) % 256 ELSE v[r]] ]_vars

(* 70FF with V0 = 1 and VF = 0 has run: V0 has wrapped to 0, VF is 0. *)
C18_Witness ==
    /\ op.name = "tick"
    /\ halt = "none"
    /\ op.instr = add_word(0, 255)
    /\ v[0] = 0
    /\ v[15] = 0

(***************************************************************************)
(* The steps of the host loop, for the properties: an engine step is a     *)
(* tick or a tick_timers; a closure is a HostCallback that did not end the *)
(* process.  NoKeys is the keyboard with every key up.                     *)
(***************************************************************************)
EngineStep == op'.name \in {"tick", "tick_timers"}
Closure(names) == op'.name \in names /\ halt' = "none"
NoKeys == [k \in Regs |-> FALSE]

(* From a waiting machine, a closure that saw no key down returns before   *)
(* the dispatch and changes nothing but the keyboard; one that saw a key   *)
(* down has called answer_key with the lowest key down, and nothing else.  *)
WaitHeldOrAnswered ==
    IF keyboard' = NoKeys
    THEN /\ ~op'.ret
         /\ UNCHANGED << memory, memory_end, v, i, pc, sp, dt, st, waiting,
                         screen, screen_updated >>
    ELSE LET key_pos == CHOOSE k \in Regs :
                           keyboard'[k] /\ \A j \in 0 .. (k - 1) : ~keyboard'[j]
         IN  /\ v' = [r \in Regs |-> IF r = waiting[1] THEN key_pos ELSE v[r]]
             /\ waiting' = None
             /\ UNCHANGED << memory, memory_end, i, pc, sp, dt, st, screen,
                             screen_updated >>

(***************************************************************************)
(* C19, as claimed: in the host loop no tick and no tick_timers is called  *)
(* while the wait marker is set, and every closure that finds the marker   *)
(* set either saw no key down and leaves the machine waiting, or delivers  *)
(* the lowest key down with answer_key.                                    *)
(***************************************************************************)
C19_HostWaitsForKey ==
    [][ /\ EngineStep => waiting = None
        /\ (Closure({"callback", "callback_reboot"}) /\ waiting # None)
              => WaitHeldOrAnswered ]_vars

(***************************************************************************)
(* C19, amended: in the host loop no tick and no tick_timers is called     *)
(* while the wait marker is set; a closure that finds the marker set and   *)
(* is not asked to reboot either saw no key down and leaves the machine    *)
(* waiting, or delivers the lowest key down with answer_key; a closure     *)
(* that is asked to reboot clears the marker with reboot, delivers no key  *)
(* and goes on to the dispatch.                                            *)
(***************************************************************************)
C19_HostWaitsForKeyOrReboot ==
    [][ /\ EngineStep => waiting = None
        /\ (Closure({"callback"}) /\ waiting # None) => WaitHeldOrAnswered
        /\ (Closure({"callback_reboot"}) /\ waiting # None)
              => /\ waiting' = None
                 /\ v' = new.v
                 /\ pc' = new.pc
                 /\ keyboard' = NoKeys
                 /\ op'.ret ]_vars

(* The closure found the machine of rom_wait waiting for V1 with key 1     *)
(* down and key 0 up, and has delivered key 1.                             *)
C19_Witness ==
    /\ op.name = "callback"
    /\ op.ret
    /\ pc = 516
    /\ waiting = None
    /\ v[1] = 1
    /\ keyboard[1]
    /\ ~keyboard[0]

(* The words that set PC to an address they name or pop: 00EE, 1nnn, 2nnn  *)
(* and Bnnn.                                                               *)
IsJump(w) == IsRet(w) \/ (w # NoWord /\ decode(w)[1] \in {1, 2, 11})

(***************************************************************************)
(* C20: in the host loop, after a tick that completes and leaves PC        *)
(* outside [PROG_OFFSET, memory_end) by advancing or skipping, not by a    *)
(* jump, call or return, finished_running is true; and the process of a    *)
(* program without such jumps never ends by the out-of-bounds exit of      *)
(* fetch.  (No program of HostRoms jumps out of itself.)                   *)
(***************************************************************************)
C20_RunningOffTheEndFinishes ==
    /\ (op.name = "tick" /\ halt = "none" /\ ~IsJump(op.instr)
        /\ pc >= memory_end)
          => finished_running(Self)
    /\ halt # "invalid_memory_access"

(***************************************************************************)
(* C21: every tick that completes and changes a byte of the screen leaves  *)
(* screen_updated TRUE.                                                    *)
(***************************************************************************)
C21_ScreenChangeIsReported ==
    [][ (op'.name = "tick" /\ halt' = "none" /\ screen' # screen)
           => screen_updated' ]_vars

(***************************************************************************)
(* C22: a tick leaves dt as it was unless it executes Fx15, which sets it  *)
(* to Vx, and st as it was unless it executes Fx18, which sets it to Vx;   *)
(* tick_timers changes no field of the machine but dt and st.  So the      *)
(* decrements of a timer are those of the tick_timers calls since it was   *)
(* set, however ticks come between them.                                   *)
(***************************************************************************)
C22_TimersApartFromTicks ==
    [][ /\ op'.name = "tick"
              => LET w == op'.instr
                     done == halt' = "none"
                 IN  /\ dt' = IF done /\ IsLdDt(w) THEN v[decode(w)[2]] ELSE dt
                     /\ st' = IF done /\ IsLdSt(w) THEN v[decode(w)[2]] ELSE st
        /\ op'.name = "tick_timers"
              => UNCHANGED << memory, memory_end, v, i, pc, sp, keyboard,
                              waiting, screen, screen_updated >> ]_vars

(* F207 of rom_timers has read the delay timer, set to 3, after two calls  *)
(* of tick_timers, and the sound timer, set to 2, has been decremented too. *)
C22_Witness ==
    /\ op.name = "tick"
    /\ halt = "none"
    /\ op.instr = 61959
    /\ dt_set = 3
    /\ dt_ticks = 2
    /\ dt = 1
    /\ v[2] = 1
    /\ st = 0

=============================================================================
